---- MODULE Spec2Model ----
(***************************************************************************)
(* Order form coordinated by a mediator (src/lab10_mediator.py), the       *)
(* caching download proxy (src/lab6_proxy.py) and the template-method      *)
(* entity updater (src/lab_8/lab8_template_method.py).                     *)
(*                                                                         *)
(* The form: six components (DatePicker, TimeSlots, RecipientCheckbox, two *)
(* RecipientInput, PickupCheckbox) and OrderFormMediator objects.  Every   *)
(* component method runs synchronously to completion, the mediator's       *)
(* notify included, so each method is one action.  The methods are pure    *)
(* operators on a "world" record w holding the objects' attributes and     *)
(* what the call has done so far (notifications sent, values the handler   *)
(* read from the sender, calls of update_available_slots, the exception it *)
(* raised).  A raised exception ends the call where it is raised: what was *)
(* written before stays written.                                           *)
(***************************************************************************)
EXTENDS Integers, Sequences, FiniteSets, TLC

\* Number of distinct dates a user can pick; the date is opaque to the code.
MaxDate == 8

\* Number of OrderFormMediator objects a host may construct.
MaxMediators == 2

Dates == 1..MaxDate

Mediators == 1..MaxMediators

\* The objects built in __main__ and passed to OrderFormMediator.__init__.
Components ==
    {"date_picker", "time_slots", "recipient_cb", "name_input", "phone_input", "pickup_cb"}

\* The two RecipientInput instances.
Inputs == {"name_input", "phone_input"}

\* The components the pickup_toggled handler activates and deactivates.
DeliveryComponents == {"date_picker", "time_slots", "recipient_cb"}

\* An attribute that was never assigned: is_checked is not set by any __init__.
Absent == <<>>

\* BaseComponent._mediator as __init__ leaves it: None.
NoMediator == 0

\* A constructor argument (and so a field of the mediator) that is None.
NoneRef == "None"

\* The order in which OrderFormMediator.__init__ assigns itself to the components.
WiringOrder ==
    <<"date_picker", "time_slots", "recipient_cb", "name_input", "phone_input", "pickup_cb">>

\* The event strings notify compares with, and one it does not know.
KnownEvents == {"date_changed", "recipient_checkbox_toggled", "pickup_toggled"}

Events == KnownEvents \cup {"slot_selected"}

VARIABLES
    is_active,      \* BaseComponent.is_active, per component
    is_checked,     \* is_checked attribute, per component: Absent or <<value>>
    is_visible,     \* RecipientInput.is_visible, per input
    is_required,    \* RecipientInput.is_required, per input
    call,           \* the method called last, with its arguments
    notified,       \* the notifications that call sent to the mediator, in order
    reads,          \* the values notify read from the sender during that call
    refreshCalls,   \* calls of update_available_slots during that call
    slotUpdates,    \* of which found the component active and updated the slots
    pre,            \* the components' attributes before that call
    mediator,       \* BaseComponent._mediator, per component: a mediator or NoMediator
    fields,         \* per mediator object, its six component fields (a component or NoneRef)
    built,          \* per mediator object: "unbuilt", "ready" (__init__ returned) or "failed"
    raised,         \* the exception that call ended with, or "none"
    maxDepth,       \* the deepest nesting of notify during that call
    proxy,          \* the ProxyDownloader, its real downloader, and the last download
    updater         \* the last update_entity call: its steps and its response

formVars ==
    <<is_active, is_checked, is_visible, is_required,
      call, notified, reads, refreshCalls, slotUpdates, pre,
      mediator, fields, built, raised, maxDepth>>

vars == <<formVars, proxy, updater>>

\* The attributes of all components in the current state.
Attrs ==
    [is_active |-> is_active, is_checked |-> is_checked,
     is_visible |-> is_visible, is_required |-> is_required]

\* The world a method starts in: the current attributes, nothing done yet.
World ==
    [is_active |-> is_active, is_checked |-> is_checked,
     is_visible |-> is_visible, is_required |-> is_required,
     notified |-> <<>>, reads |-> <<>>, refreshCalls |-> 0, slotUpdates |-> 0,
     mediator |-> mediator, fields |-> fields, built |-> built,
     raised |-> "none", depth |-> 0, maxDepth |-> 0]

\* An attribute access or method call on None: AttributeError.
RaiseAttributeError(w) == [w EXCEPT !.raised = "AttributeError"]

\* getattr(sender, 'is_checked', False)
getattr_is_checked(w, sender) ==
    IF sender \notin DOMAIN w.is_checked \/ w.is_checked[sender] = Absent
    THEN FALSE
    ELSE w.is_checked[sender][1]

\* Variant of set_active that can switch a component off but never on again.
set_active_only_off(w, c, status) ==
    [w EXCEPT !.is_active[c] = @ /\ status]

\* BaseComponent.set_active: unconditional write of is_active.
BaseComponent_set_active(w, c, status) ==
    [w EXCEPT !.is_active[c] = status]

\* TimeSlots.update_available_slots: returns at once when inactive.
TimeSlots_update_available_slots(w) ==
    LET called == [w EXCEPT !.refreshCalls = @ + 1]
    IN  IF ~called.is_active["time_slots"]
        THEN called
        ELSE [called EXCEPT !.slotUpdates = @ + 1]

\* RecipientInput.set_visibility: unconditional write of is_visible.
RecipientInput_set_visibility(w, f, visible) ==
    [w EXCEPT !.is_visible[f] = visible]

\* RecipientInput.set_required: unconditional write of is_required.
RecipientInput_set_required(w, f, required) ==
    [w EXCEPT !.is_required[f] = required]

\* One statement self._<slot>.method(...) of notify, called holds the world
\* the method call on the component leaves: the statement is skipped when an
\* earlier statement raised, and raises AttributeError when the field is None.
OnField(w, self, slot, called) ==
    IF w.raised # "none" THEN w
    ELSE IF w.fields[self][slot] = NoneRef THEN RaiseAttributeError(w)
    ELSE called

\* Variant of the date_changed branch that refreshes the slots twice.
notify_date_changed_twice(w, self) ==
    LET w1 == OnField(w, self, "time_slots", TimeSlots_update_available_slots(w))
    IN  OnField(w1, self, "time_slots", TimeSlots_update_available_slots(w1))

\* OrderFormMediator.notify, branch event == "date_changed".
notify_date_changed(w, self) ==
    OnField(w, self, "time_slots", TimeSlots_update_available_slots(w))

\* Variant of the recipient branch that forgets set_required on the phone input.
notify_recipient_phone_not_required(w, self, sender) ==
    LET checked == getattr_is_checked(w, sender)
        w0 == [w EXCEPT !.reads = Append(@, checked)]
        w1 == OnField(w0, self, "name_input",
                      RecipientInput_set_visibility(w0, "name_input", checked))
        w2 == OnField(w1, self, "name_input",
                      RecipientInput_set_required(w1, "name_input", checked))
        w3 == OnField(w2, self, "phone_input",
                      RecipientInput_set_visibility(w2, "phone_input", checked))
    IN  w3

\* OrderFormMediator.notify, branch event == "recipient_checkbox_toggled".
notify_recipient_checkbox_toggled(w, self, sender) ==
    LET checked == getattr_is_checked(w, sender)
        w0 == [w EXCEPT !.reads = Append(@, checked)]
        w1 == OnField(w0, self, "name_input",
                      RecipientInput_set_visibility(w0, "name_input", checked))
        w2 == OnField(w1, self, "name_input",
                      RecipientInput_set_required(w1, "name_input", checked))
        w3 == OnField(w2, self, "phone_input",
                      RecipientInput_set_visibility(w2, "phone_input", checked))
        w4 == OnField(w3, self, "phone_input",
                      RecipientInput_set_required(w3, "phone_input", checked))
    IN  w4

\* The three set_active calls of the pickup_toggled branch, in source order.
pickup_set_delivery_active(w, self, delivery_active) ==
    LET w1 == OnField(w, self, "date_picker",
                      BaseComponent_set_active(w, "date_picker", delivery_active))
        w2 == OnField(w1, self, "time_slots",
                      BaseComponent_set_active(w1, "time_slots", delivery_active))
        w3 == OnField(w2, self, "recipient_cb",
                      BaseComponent_set_active(w2, "recipient_cb", delivery_active))
    IN  w3

\* Variant of the hiding that also makes the inputs optional.
pickup_hide_and_unrequire(w, self) ==
    LET w1 == OnField(w, self, "name_input",
                      RecipientInput_set_visibility(w, "name_input", FALSE))
        w2 == OnField(w1, self, "name_input",
                      RecipientInput_set_required(w1, "name_input", FALSE))
        w3 == OnField(w2, self, "phone_input",
                      RecipientInput_set_visibility(w2, "phone_input", FALSE))
        w4 == OnField(w3, self, "phone_input",
                      RecipientInput_set_required(w3, "phone_input", FALSE))
    IN  w4

\* The two set_visibility(False) calls of the pickup_toggled branch.
pickup_hide_inputs(w, self) ==
    LET w1 == OnField(w, self, "name_input",
                      RecipientInput_set_visibility(w, "name_input", FALSE))
        w2 == OnField(w1, self, "phone_input",
                      RecipientInput_set_visibility(w1, "phone_input", FALSE))
    IN  w2

\* Variant of the pickup branch that deactivates the delivery components but
\* leaves the recipient inputs as they are.
notify_pickup_no_hide(w, self, sender) ==
    LET is_pickup == getattr_is_checked(w, sender)
        delivery_active == ~is_pickup
        w0 == [w EXCEPT !.reads = Append(@, is_pickup)]
    IN  pickup_set_delivery_active(w0, self, delivery_active)

\* Variant of the pickup branch that forgets the recipient checkbox.
notify_pickup_skips_recipient_cb(w, self, sender) ==
    LET is_pickup == getattr_is_checked(w, sender)
        delivery_active == ~is_pickup
        w0 == [w EXCEPT !.reads = Append(@, is_pickup)]
        w1 == OnField(w0, self, "date_picker",
                      BaseComponent_set_active(w0, "date_picker", delivery_active))
        w2 == OnField(w1, self, "time_slots",
                      BaseComponent_set_active(w1, "time_slots", delivery_active))
    IN  IF is_pickup THEN pickup_hide_inputs(w2, self) ELSE w2

\* Variant of the pickup branch that, when pickup is switched off, shows the
\* recipient inputs again if the recipient checkbox is checked.
notify_pickup_reshows_inputs(w, self, sender) ==
    LET is_pickup == getattr_is_checked(w, sender)
        delivery_active == ~is_pickup
        w0 == [w EXCEPT !.reads = Append(@, is_pickup)]
        w3 == pickup_set_delivery_active(w0, self, delivery_active)
        shown == getattr_is_checked(w3, "recipient_cb")
        w4 == OnField(w3, self, "name_input",
                      RecipientInput_set_visibility(w3, "name_input", shown))
        w5 == OnField(w4, self, "phone_input",
                      RecipientInput_set_visibility(w4, "phone_input", shown))
    IN  IF is_pickup THEN pickup_hide_inputs(w3, self) ELSE w5

\* OrderFormMediator.notify, branch event == "pickup_toggled".
notify_pickup_toggled(w, self, sender) ==
    LET is_pickup == getattr_is_checked(w, sender)
        delivery_active == ~is_pickup
        w0 == [w EXCEPT !.reads = Append(@, is_pickup)]
        w3 == pickup_set_delivery_active(w0, self, delivery_active)
    IN  IF is_pickup THEN pickup_hide_inputs(w3, self) ELSE w3

\* Entry into notify: the call is recorded and the nesting grows by one.
enter_notify(w, sender, event) ==
    [w EXCEPT !.notified = Append(@, [sender |-> sender, event |-> event]),
              !.depth = @ + 1,
              !.maxDepth = IF w.depth + 1 > @ THEN w.depth + 1 ELSE @]

\* Return (or propagation of an exception) out of notify.
leave_notify(w) == [w EXCEPT !.depth = @ - 1]

\* Variant of notify whose last branch is an else: every event that is not
\* one of the first two is handled as pickup_toggled.
notify_else_pickup(w, self, sender, event) ==
    LET entered == enter_notify(w, sender, event)
    IN  leave_notify(
            IF event = "date_changed" THEN notify_date_changed(entered, self)
            ELSE IF event = "recipient_checkbox_toggled"
                 THEN notify_recipient_checkbox_toggled(entered, self, sender)
            ELSE notify_pickup_toggled(entered, self, sender))

\* Variant of notify whose pickup branch, when pickup is switched off, has the
\* recipient checkbox announce its state again: a notify inside a notify.
notify_pickup_renotifies(w, self, sender, event) ==
    LET entered == enter_notify(w, sender, event)
        handled == notify_pickup_toggled(entered, self, sender)
        again == [handled EXCEPT
                     !.is_checked["recipient_cb"] = <<getattr_is_checked(handled, "recipient_cb")>>]
    IN  leave_notify(
            IF event = "date_changed" THEN notify_date_changed(entered, self)
            ELSE IF event = "recipient_checkbox_toggled"
                 THEN notify_recipient_checkbox_toggled(entered, self, sender)
            ELSE IF event = "pickup_toggled"
                 THEN IF handled.raised = "none" /\ handled.is_active["recipient_cb"]
                      THEN leave_notify(notify_recipient_checkbox_toggled(
                               enter_notify(again, "recipient_cb", "recipient_checkbox_toggled"),
                               self, "recipient_cb"))
                      ELSE handled
            ELSE entered)

\* OrderFormMediator.notify: dispatch on the event string; any other event
\* falls through the if/elif chain and does nothing.
OrderFormMediator_notify(w, self, sender, event) ==
    LET entered == enter_notify(w, sender, event)
    IN  leave_notify(
            IF event = "date_changed" THEN notify_date_changed(entered, self)
            ELSE IF event = "recipient_checkbox_toggled"
                 THEN notify_recipient_checkbox_toggled(entered, self, sender)
            ELSE IF event = "pickup_toggled"
                 THEN notify_pickup_toggled(entered, self, sender)
            ELSE entered)

\* self.mediator.notify(self, event) in a component: AttributeError when the
\* component's mediator is still None.
mediator_notify(w, sender, event) ==
    IF w.mediator[sender] = NoMediator
    THEN RaiseAttributeError(w)
    ELSE OrderFormMediator_notify(w, w.mediator[sender], sender, event)

\* Variant of select_date without the is_active test.
select_date_ungated(w, selected_date) ==
    mediator_notify(w, "date_picker", "date_changed")

\* DatePicker.select_date: gated by is_active; the date is only printed.
DatePicker_select_date(w, selected_date) ==
    IF ~w.is_active["date_picker"]
    THEN w
    ELSE mediator_notify(w, "date_picker", "date_changed")

\* Variant of RecipientCheckbox.toggle without the is_active test.
recipient_toggle_ungated(w, checked) ==
    mediator_notify(
        [w EXCEPT !.is_checked["recipient_cb"] = <<checked>>],
        "recipient_cb", "recipient_checkbox_toggled")

\* Variant of RecipientCheckbox.toggle that notifies before it stores is_checked
\* (the order the comment at the assignment says was a bug).
recipient_toggle_notify_first(w, checked) ==
    IF ~w.is_active["recipient_cb"]
    THEN w
    ELSE LET notifiedW == mediator_notify(w, "recipient_cb", "recipient_checkbox_toggled")
         IN  [notifiedW EXCEPT !.is_checked["recipient_cb"] = <<checked>>]

\* RecipientCheckbox.toggle: gated by is_active; stores is_checked, then notifies.
RecipientCheckbox_toggle(w, checked) ==
    IF ~w.is_active["recipient_cb"]
    THEN w
    ELSE mediator_notify(
             [w EXCEPT !.is_checked["recipient_cb"] = <<checked>>],
             "recipient_cb", "recipient_checkbox_toggled")

\* Variant of PickupCheckbox.toggle gated by is_active like the other checkbox.
pickup_toggle_gated(w, checked) ==
    IF ~w.is_active["pickup_cb"]
    THEN w
    ELSE mediator_notify(
             [w EXCEPT !.is_checked["pickup_cb"] = <<checked>>],
             "pickup_cb", "pickup_toggled")

\* Variant of PickupCheckbox.toggle that notifies before it stores is_checked.
pickup_toggle_notify_first(w, checked) ==
    LET notifiedW == mediator_notify(w, "pickup_cb", "pickup_toggled")
    IN  [notifiedW EXCEPT !.is_checked["pickup_cb"] = <<checked>>]

\* PickupCheckbox.toggle: no is_active test; stores is_checked, then notifies.
PickupCheckbox_toggle(w, checked) ==
    mediator_notify(
        [w EXCEPT !.is_checked["pickup_cb"] = <<checked>>],
        "pickup_cb", "pickup_toggled")

\* The arguments of a constructor call in which the components in missing
\* are passed as None and every other parameter gets its component.
ArgsMissing(missing) ==
    [c \in Components |-> IF c \in missing THEN NoneRef ELSE c]

\* The place of a component in the wiring order.
WiringIndex(c) == CHOOSE i \in 1..Len(WiringOrder) : WiringOrder[i] = c

\* OrderFormMediator.__init__: stores the six arguments, then assigns itself
\* to each component in order; the assignment to a None argument raises
\* AttributeError and leaves the later components as they were.
OrderFormMediator_init(w, self, args) ==
    LET noneAt == {i \in 1..Len(WiringOrder) : args[WiringOrder[i]] = NoneRef}
        firstNone == IF noneAt = {} THEN Len(WiringOrder) + 1
                     ELSE CHOOSE i \in noneAt : \A j \in noneAt : i <= j
    IN  [w EXCEPT !.fields[self] = args,
                  !.mediator = [c \in Components |->
                                   IF WiringIndex(c) < firstNone THEN self ELSE w.mediator[c]],
                  !.built[self] = IF noneAt = {} THEN "ready" ELSE "failed",
                  !.raised = IF noneAt = {} THEN "none" ELSE "AttributeError"]

\* The world once the six components are constructed and no mediator is:
\* BaseComponent.__init__ and RecipientInput.__init__ defaults.
FreshWorld ==
    [is_active |-> [c \in Components |-> TRUE],
     is_checked |-> [c \in Components |-> Absent],
     is_visible |-> [f \in Inputs |-> FALSE],
     is_required |-> [f \in Inputs |-> FALSE],
     notified |-> <<>>, reads |-> <<>>, refreshCalls |-> 0, slotUpdates |-> 0,
     mediator |-> [c \in Components |-> NoMediator],
     fields |-> [m \in Mediators |-> [c \in Components |-> NoneRef]],
     built |-> [m \in Mediators |-> "unbuilt"],
     raised |-> "none", depth |-> 0, maxDepth |-> 0]

\* The form variables hold world w; no call has been made yet.
StartIn(w) ==
    /\ is_active = w.is_active
    /\ is_checked = w.is_checked
    /\ is_visible = w.is_visible
    /\ is_required = w.is_required
    /\ call = [op |-> "init", target |-> "none", arg |-> FALSE, date |-> 0]
    /\ notified = <<>>
    /\ reads = <<>>
    /\ refreshCalls = 0
    /\ slotUpdates = 0
    /\ pre = Attrs
    /\ mediator = w.mediator
    /\ fields = w.fields
    /\ built = w.built
    /\ raised = "none"
    /\ maxDepth = 0

(***************************************************************************)
(* The caching proxy (src/lab6_proxy.py).                                  *)
(***************************************************************************)

\* Number of distinct filenames requested.
MaxFiles == 3

\* Number of times one filename is requested.
MaxRequests == 3

Files == 1..MaxFiles

\* SimpleDownloader.download: the content depends on the filename alone.
SimpleDownloader_download(filename) == <<"content of file", filename>>

\* ProxyDownloader.__init__: an empty cache; no download made yet.
ProxyDownloader_init ==
    [cache |-> <<>>,
     realCalls |-> [f \in Files |-> 0],
     requests |-> [f \in Files |-> 0],
     filename |-> 0,
     result |-> <<>>]

\* Variant of download that returns the downloaded data without caching it.
download_without_store(p, filename) ==
    IF filename \in DOMAIN p.cache
    THEN [p EXCEPT !.result = p.cache[filename]]
    ELSE LET data == SimpleDownloader_download(filename)
         IN  [p EXCEPT !.realCalls[filename] = @ + 1, !.result = data]

\* ProxyDownloader.download: the cached copy when there is one, else the real
\* downloader's data, stored in the cache before it is returned.
ProxyDownloader_download(p, filename) ==
    IF filename \in DOMAIN p.cache
    THEN [p EXCEPT !.result = p.cache[filename]]
    ELSE LET data == SimpleDownloader_download(filename)
         IN  [p EXCEPT !.realCalls[filename] = @ + 1,
                       !.cache = [f \in DOMAIN p.cache \cup {filename} |->
                                     IF f = filename THEN data ELSE p.cache[f]],
                       !.result = data]

(***************************************************************************)
(* The template-method updater (src/lab_8/lab8_template_method.py).        *)
(***************************************************************************)

\* Entity ids passed to update_entity.
MaxId == 3

\* Prices in new_data range over -MaxPrice..MaxPrice.
MaxPrice == 2

UpdaterClasses == {"ProductUpdater", "UserUpdater", "OrderUpdater"}

\* new_data, as far as any validate_data looks at it: the value under "price"
\* (<<>> when the key is missing) and whether the key "email" is present.
NewData ==
    [price : {<<>>} \cup {<<n>> : n \in (-MaxPrice)..MaxPrice}, email : BOOLEAN]

\* BaseEntityUpdater.validate_data
BaseEntityUpdater_validate_data(data) == TRUE

\* validate_data as the class of the updater resolves it.
validate_data(cls, data) ==
    IF cls = "ProductUpdater"
    THEN IF data.price # <<>> /\ data.price[1] < 0 THEN FALSE ELSE TRUE
    ELSE IF cls = "UserUpdater"
    THEN IF data.email THEN FALSE ELSE BaseEntityUpdater_validate_data(data)
    ELSE BaseEntityUpdater_validate_data(data)

\* send_response as the class resolves it: OrderUpdater adds a body.
send_response(cls) ==
    [status |-> "success", code |-> 200, message |-> <<>>, body |-> cls = "OrderUpdater"]

\* The response update_entity returns when validation fails.
ValidationFailed ==
    [status |-> "error", code |-> 400, message |-> <<"Validation failed">>, body |-> FALSE]

\* Variant of update_entity that saves before it validates.
update_entity_save_first(cls, entity_id, new_data) ==
    LET begun == <<"get_entity", "hook_before_save", "save_data", "validate_data">>
    IN  IF ~validate_data(cls, new_data)
        THEN [cls |-> cls, entity_id |-> entity_id, new_data |-> new_data,
              steps |-> Append(begun, "hook_on_validation_error"),
              response |-> ValidationFailed]
        ELSE [cls |-> cls, entity_id |-> entity_id, new_data |-> new_data,
              steps |-> Append(begun, "send_response"),
              response |-> send_response(cls)]

\* BaseEntityUpdater.update_entity: the methods it calls, in order, and what
\* it returns.
update_entity(cls, entity_id, new_data) ==
    LET begun == <<"get_entity", "validate_data">>
    IN  IF ~validate_data(cls, new_data)
        THEN [cls |-> cls, entity_id |-> entity_id, new_data |-> new_data,
              steps |-> Append(begun, "hook_on_validation_error"),
              response |-> ValidationFailed]
        ELSE [cls |-> cls, entity_id |-> entity_id, new_data |-> new_data,
              steps |-> begun \o <<"hook_before_save", "save_data", "send_response">>,
              response |-> send_response(cls)]

\* No update_entity call has been made.
UpdaterIdle ==
    [cls |-> "none", entity_id |-> 0, new_data |-> [price |-> <<>>, email |-> FALSE],
     steps |-> <<>>, response |-> [status |-> "none", code |-> 0, message |-> <<>>, body |-> FALSE]]

(***************************************************************************)
(* States and actions.                                                     *)
(***************************************************************************)

\* The state __main__ is in once the components and the mediator are built.
Init ==
    /\ StartIn(OrderFormMediator_init(FreshWorld, 1, ArgsMissing({})))
    /\ proxy = ProxyDownloader_init
    /\ updater = UpdaterIdle

\* The state __main__ is in once the components are built and no mediator is.
InitFresh ==
    /\ StartIn(FreshWorld)
    /\ proxy = ProxyDownloader_init
    /\ updater = UpdaterIdle

\* One completed method call: the world w it ends in becomes the state.
Complete(w) ==
    /\ is_active' = w.is_active
    /\ is_checked' = w.is_checked
    /\ is_visible' = w.is_visible
    /\ is_required' = w.is_required
    /\ notified' = w.notified
    /\ reads' = w.reads
    /\ refreshCalls' = w.refreshCalls
    /\ slotUpdates' = w.slotUpdates
    /\ pre' = Attrs
    /\ mediator' = w.mediator
    /\ fields' = w.fields
    /\ built' = w.built
    /\ raised' = w.raised
    /\ maxDepth' = w.maxDepth
    /\ UNCHANGED <<proxy, updater>>

SelectDate ==
    \E d \in Dates :
        /\ call' = [op |-> "select_date", target |-> "date_picker", arg |-> FALSE, date |-> d]
        /\ Complete(DatePicker_select_date(World, d))

RecipientToggle ==
    \E v \in BOOLEAN :
        /\ call' = [op |-> "toggle", target |-> "recipient_cb", arg |-> v, date |-> 0]
        /\ Complete(RecipientCheckbox_toggle(World, v))

PickupToggle ==
    \E v \in BOOLEAN :
        /\ call' = [op |-> "toggle", target |-> "pickup_cb", arg |-> v, date |-> 0]
        /\ Complete(PickupCheckbox_toggle(World, v))

SetActive ==
    \E c \in Components, v \in BOOLEAN :
        /\ call' = [op |-> "set_active", target |-> c, arg |-> v, date |-> 0]
        /\ Complete(BaseComponent_set_active(World, c, v))

SetVisibility ==
    \E f \in Inputs, v \in BOOLEAN :
        /\ call' = [op |-> "set_visibility", target |-> f, arg |-> v, date |-> 0]
        /\ Complete(RecipientInput_set_visibility(World, f, v))

SetRequired ==
    \E f \in Inputs, v \in BOOLEAN :
        /\ call' = [op |-> "set_required", target |-> f, arg |-> v, date |-> 0]
        /\ Complete(RecipientInput_set_required(World, f, v))

RefreshAvailability ==
    /\ call' = [op |-> "update_available_slots", target |-> "time_slots", arg |-> FALSE, date |-> 0]
    /\ Complete(TimeSlots_update_available_slots(World))

\* The objects a host may pass to notify as sender: a component, or an
\* object of its own that has no is_checked.
Senders == Components \cup {"host"}

\* A direct call mediator.notify(sender, event) on a constructed mediator.
NotifyDirect ==
    \E m \in Mediators, sender \in Senders, event \in Events :
        /\ built[m] = "ready"
        /\ call' = [op |-> "notify", target |-> sender, arg |-> FALSE, date |-> 0]
        /\ Complete(OrderFormMediator_notify(World, m, sender, event))

\* The constructor calls considered: every argument given, or one of them None.
MissingChoices == {{}} \cup {{c} : c \in Components}

\* OrderFormMediator(...) on a new object.
Construct ==
    \E m \in Mediators, missing \in MissingChoices :
        /\ built[m] = "unbuilt"
        /\ \A k \in Mediators : k < m => built[k] # "unbuilt"
        /\ call' = [op |-> "construct", target |-> "mediator", arg |-> FALSE, date |-> 0,
                    self |-> m, missing |-> missing]
        /\ Complete(OrderFormMediator_init(World, m, ArgsMissing(missing)))

\* proxy.download(filename), as client_code calls it.
Download ==
    \E f \in Files :
        /\ proxy.requests[f] < MaxRequests
        /\ proxy' = ProxyDownloader_download(
                        [proxy EXCEPT !.requests[f] = @ + 1, !.filename = f], f)
        /\ UNCHANGED <<formVars, updater>>

\* updater.update_entity(entity_id, new_data) on an updater of class cls.
UpdateEntity ==
    \E cls \in UpdaterClasses, id \in 1..MaxId, data \in NewData :
        /\ updater' = update_entity(cls, id, data)
        /\ UNCHANGED <<formVars, proxy>>

\* Every method the components expose to the host.
Next ==
    \/ SelectDate
    \/ RecipientToggle
    \/ PickupToggle
    \/ SetActive
    \/ SetVisibility
    \/ SetRequired
    \/ RefreshAvailability

Spec == Init /\ [][Next]_vars

\* Only what a user does on the form, as in __main__: the setters and
\* update_available_slots are then called by the mediator alone.
NextUser ==
    \/ SelectDate
    \/ RecipientToggle
    \/ PickupToggle

SpecUser == Init /\ [][NextUser]_vars

\* The user actions and direct calls of notify, on the wired form.
NextNotify ==
    \/ SelectDate
    \/ RecipientToggle
    \/ PickupToggle
    \/ NotifyDirect

SpecNotify == Init /\ [][NextNotify]_vars

\* The form session from the construction of the components on: mediators
\* are constructed at any time, the user actions come at any time.
NextLifecycle ==
    \/ Construct
    \/ SelectDate
    \/ RecipientToggle
    \/ PickupToggle

SpecLifecycle == InitFresh /\ [][NextLifecycle]_vars

SpecProxy == Init /\ [][Download]_vars

SpecUpdater == Init /\ [][UpdateEntity]_vars

TypeOK ==
    /\ is_active \in [Components -> BOOLEAN]
    /\ is_checked \in [Components -> {Absent, <<TRUE>>, <<FALSE>>}]
    /\ is_visible \in [Inputs -> BOOLEAN]
    /\ is_required \in [Inputs -> BOOLEAN]
    /\ refreshCalls \in 0..1
    /\ slotUpdates \in 0..refreshCalls
    /\ Len(notified) <= 1
    /\ mediator \in [Components -> {NoMediator} \cup Mediators]
    /\ built \in [Mediators -> {"unbuilt", "ready", "failed"}]
    /\ raised \in {"none", "AttributeError"}

(***************************************************************************)
(* Vocabulary of the properties.                                           *)
(***************************************************************************)

\* The value a reader of c.is_checked gets, a missing attribute read as False.
Checked(c) == getattr_is_checked(Attrs, c)

CheckedBefore(c) == getattr_is_checked(pre, c)

\* The last call was method op of component target.
Called(op, target) == call.op = op /\ call.target = target

DeliveryAllInactive == \A c \in DeliveryComponents : ~is_active[c]

DeliveryAllActive == \A c \in DeliveryComponents : is_active[c]

\* The last call left every attribute of every component as it was.
NothingChanged == Attrs = pre

\* The last call sent exactly this one notification.
NotifiedOnce(sender, event) == notified = <<[sender |-> sender, event |-> event]>>

\* The methods a host calls to change form state, set_active apart.
StateChangingCall ==
    call.op \in {"select_date", "toggle", "set_visibility", "set_required",
                 "update_available_slots"}

(***************************************************************************)
(* C1: pickup checked implies the delivery components are inactive.        *)
(***************************************************************************)

PickupRule == Checked("pickup_cb") => DeliveryAllInactive

\* C1 as stated: after any sequence of the exposed methods, set_active on any
\* component included, PickupToggle.checked implies that DateSelector,
\* TimeSlotList and RecipientToggle are all inactive.
C1_Original == PickupRule

\* C1 amended: the implication holds initially and every exposed method keeps
\* it, except a direct set_active call on DateSelector, TimeSlotList or
\* RecipientToggle.
C1_PickupRuleKeptExceptBySetActive ==
    /\ PickupRule
    /\ [][(PickupRule /\ ~(call'.op = "set_active" /\ call'.target \in DeliveryComponents))
            => PickupRule']_vars

\* Pickup was switched on while all delivery components were active.
C1_Witness ==
    /\ Called("toggle", "pickup_cb") /\ call.arg
    /\ \A c \in DeliveryComponents : pre.is_active[c]
    /\ Checked("pickup_cb") /\ DeliveryAllInactive

(***************************************************************************)
(* C2: the recipient inputs follow the recipient checkbox.                 *)
(***************************************************************************)

\* C2 as stated: RecipientToggle.checked implies both recipient fields visible
\* and required; not checked implies both hidden and not required.
C2_Original ==
    /\ Checked("recipient_cb") => \A f \in Inputs : is_visible[f] /\ is_required[f]
    /\ ~Checked("recipient_cb") => \A f \in Inputs : ~is_visible[f] /\ ~is_required[f]

\* C2 amended: under the user actions, RecipientToggle.checked implies both
\* recipient fields required (their visibility may have been taken away by a
\* pickup activation, and the two fields are visible or hidden together); not
\* checked implies both fields hidden and not required.
C2_RequiredFollowsChecked ==
    /\ Checked("recipient_cb") => \A f \in Inputs : is_required[f]
    /\ is_visible["name_input"] = is_visible["phone_input"]
    /\ ~Checked("recipient_cb") => \A f \in Inputs : ~is_visible[f] /\ ~is_required[f]

\* Recipient checked, fields required, yet hidden because pickup is on.
C2_Witness ==
    /\ Checked("recipient_cb") /\ Checked("pickup_cb")
    /\ \A f \in Inputs : is_required[f] /\ ~is_visible[f]

(***************************************************************************)
(* C3: an inactive component ignores its state-changing methods.           *)
(***************************************************************************)

\* C3 as stated: for every component, a state-changing method called while
\* the component is inactive notifies nobody and changes no attribute.
C3_Original ==
    (StateChangingCall /\ ~pre.is_active[call.target])
        => (notified = <<>> /\ NothingChanged)

\* C3 amended: for DateSelector, TimeSlotList and RecipientToggle, a
\* state-changing method (select_date, update_available_slots, toggle) called
\* while the component is inactive notifies nobody, updates no slots and
\* changes no attribute of any component.
C3_InactiveDeliveryComponentIgnoresCall ==
    (StateChangingCall /\ call.target \in DeliveryComponents /\ ~pre.is_active[call.target])
        => (notified = <<>> /\ slotUpdates = 0 /\ NothingChanged)

\* The inactive recipient checkbox was asked for a value it did not hold.
C3_Witness ==
    /\ Called("toggle", "recipient_cb")
    /\ ~pre.is_active["recipient_cb"]
    /\ pre.is_checked["recipient_cb"] # <<call.arg>>
    /\ NothingChanged

(***************************************************************************)
(* C4: RecipientToggle stores checked before it notifies.                  *)
(***************************************************************************)

\* C4: after toggle(v) on the active recipient checkbox, is_checked is v, the
\* one notification is recipient_checkbox_toggled, the handler read v from
\* the sender, and both recipient inputs are visible = v and required = v.
C4_RecipientToggleCommitsThenNotifies ==
    (Called("toggle", "recipient_cb") /\ pre.is_active["recipient_cb"])
        => /\ is_checked["recipient_cb"] = <<call.arg>>
           /\ NotifiedOnce("recipient_cb", "recipient_checkbox_toggled")
           /\ reads = <<call.arg>>
           /\ \A f \in Inputs : is_visible[f] = call.arg /\ is_required[f] = call.arg

\* The checkbox went from unchecked to checked and the inputs followed.
C4_Witness ==
    /\ Called("toggle", "recipient_cb") /\ call.arg
    /\ pre.is_active["recipient_cb"]
    /\ pre.is_checked["recipient_cb"] = <<FALSE>>
    /\ \A f \in Inputs : ~pre.is_visible[f] /\ is_visible[f] /\ is_required[f]

(***************************************************************************)
(* C5: switching pickup on.                                                *)
(***************************************************************************)

\* C5: after PickupToggle.toggle(True), from any state, the three delivery
\* components are inactive and both recipient inputs are hidden.
C5_PickupOnDeactivatesAndHides ==
    (Called("toggle", "pickup_cb") /\ call.arg)
        => (DeliveryAllInactive /\ \A f \in Inputs : ~is_visible[f])

\* Pickup was switched on while the recipient was checked and its inputs shown.
C5_Witness ==
    /\ Called("toggle", "pickup_cb") /\ call.arg
    /\ CheckedBefore("recipient_cb")
    /\ \A f \in Inputs : pre.is_visible[f] /\ ~is_visible[f]
    /\ \A c \in DeliveryComponents : pre.is_active[c] /\ ~is_active[c]

(***************************************************************************)
(* C6: switching pickup on and off again.                                  *)
(***************************************************************************)

\* C6: a PickupToggle.toggle(False) that directly follows a
\* PickupToggle.toggle(True) ends with the three delivery components active.
C6_PickupOnThenOffReactivates ==
    [][((Called("toggle", "pickup_cb") /\ call.arg)
         /\ (Called("toggle", "pickup_cb") /\ ~call.arg)')
        => DeliveryAllActive']_vars

\* Pickup was switched off in the state a pickup activation had produced.
C6_Witness ==
    /\ Called("toggle", "pickup_cb") /\ ~call.arg
    /\ CheckedBefore("pickup_cb")
    /\ \A c \in DeliveryComponents : ~pre.is_active[c]
    /\ DeliveryAllActive

(***************************************************************************)
(* C7, C8: date selection.                                                 *)
(***************************************************************************)

\* C7: select_date on the inactive date picker sends no notification, calls
\* update_available_slots not at all and changes no attribute.
C7_InactiveSelectDateIsNoOp ==
    (Called("select_date", "date_picker") /\ ~pre.is_active["date_picker"])
        => (notified = <<>> /\ refreshCalls = 0 /\ NothingChanged)

\* A date was picked while pickup was on.
C7_Witness ==
    /\ Called("select_date", "date_picker")
    /\ ~pre.is_active["date_picker"]
    /\ CheckedBefore("pickup_cb")
    /\ refreshCalls = 0

\* C8: select_date on the active date picker sends exactly one date_changed
\* notification, calls update_available_slots exactly once and changes no
\* is_active, is_checked, is_visible or is_required.
C8_ActiveSelectDateRefreshesOnce ==
    (Called("select_date", "date_picker") /\ pre.is_active["date_picker"])
        => /\ NotifiedOnce("date_picker", "date_changed")
           /\ refreshCalls = 1
           /\ NothingChanged

\* A date was picked in delivery mode and the slots were updated.
C8_Witness ==
    /\ Called("select_date", "date_picker")
    /\ pre.is_active["date_picker"]
    /\ refreshCalls = 1 /\ slotUpdates = 1

(***************************************************************************)
(* C9: PickupToggle is not gated by its own is_active.                     *)
(***************************************************************************)

\* C9: after PickupToggle.toggle(v), in every state, is_checked is v, the one
\* notification is pickup_toggled, the handler read v, and each delivery
\* component has is_active = not v.
C9_PickupToggleNotGated ==
    Called("toggle", "pickup_cb")
        => /\ is_checked["pickup_cb"] = <<call.arg>>
           /\ NotifiedOnce("pickup_cb", "pickup_toggled")
           /\ reads = <<call.arg>>
           /\ \A c \in DeliveryComponents : is_active[c] = ~call.arg

\* The inactive pickup checkbox was toggled and changed the delivery components.
C9_Witness ==
    /\ Called("toggle", "pickup_cb")
    /\ ~pre.is_active["pickup_cb"]
    /\ \E c \in DeliveryComponents : pre.is_active[c] # is_active[c]

(***************************************************************************)
(* C10: the delivery mode determines the three is_active flags.            *)
(***************************************************************************)

\* C10: under the user actions, each delivery component has
\* is_active = not PickupToggle.checked in every state, and only
\* PickupToggle.toggle changes any of the three flags.
C10_DeliveryModeDeterminesActive ==
    /\ [](\A c \in DeliveryComponents : is_active[c] = ~Checked("pickup_cb"))
    /\ [][(\E c \in DeliveryComponents : is_active'[c] # is_active[c])
            => Called("toggle", "pickup_cb")']_vars

\* In pickup mode another user action came and went; the flags stayed off.
C10_Witness ==
    /\ Called("toggle", "recipient_cb")
    /\ CheckedBefore("pickup_cb") /\ Checked("pickup_cb")
    /\ DeliveryAllInactive

(***************************************************************************)
(* C11: an unknown event kind is ignored.                                  *)
(***************************************************************************)

\* The last call was mediator.notify(sender, event), made by the host.
NotifyCalled(sender, event) ==
    /\ Called("notify", sender)
    /\ notified # <<>>
    /\ notified[1].event = event

\* C11: notify(sender, e) with e none of date_changed,
\* recipient_checkbox_toggled and pickup_toggled raises nothing, calls no
\* method of any component, reads nothing from the sender and leaves every
\* is_active, is_checked, is_visible and is_required as it was, for any sender.
C11_UnknownEventIgnored ==
    (call.op = "notify" /\ notified[1].event \notin KnownEvents)
        => /\ raised = "none"
           /\ Len(notified) = 1
           /\ reads = <<>>
           /\ refreshCalls = 0
           /\ NothingChanged

\* An unknown event came from the checked recipient checkbox while its inputs
\* were hidden: recipient_checkbox_toggled would have shown them.
C11_Witness ==
    /\ NotifyCalled("recipient_cb", "slot_selected")
    /\ Checked("recipient_cb")
    /\ is_active["recipient_cb"]
    /\ \A f \in Inputs : ~is_visible[f]

(***************************************************************************)
(* C12: no notify inside a notify.                                         *)
(***************************************************************************)

\* C12: every call sends at most one notification to the mediator and notify
\* is never entered while a notify is running.
C12_NoNestedNotify ==
    /\ Len(notified) <= 1
    /\ maxDepth <= 1
    /\ maxDepth = Len(notified)

\* Pickup was switched off: one notification, whose handler changed components.
C12_Witness ==
    /\ Called("toggle", "pickup_cb") /\ ~call.arg
    /\ NotifiedOnce("pickup_cb", "pickup_toggled")
    /\ maxDepth = 1
    /\ is_active["recipient_cb"] /\ ~pre.is_active["recipient_cb"]

(***************************************************************************)
(* C13, C14, C15: construction and wiring.                                 *)
(***************************************************************************)

\* C13 as stated: no operation of a component raises, in any state of the
\* session, the states before the mediator is constructed included.
C13_NoOperationRaises ==
    call.op \in {"select_date", "toggle"} => raised = "none"

\* C14 as stated: a constructor call with a missing component raises in the
\* constructor, and no later call raises inside notify for a missing
\* component.  (A call that raises before it enters notify, because the
\* component has no mediator at all, is C13's case and not counted here.)
C14_MissingComponentRaisesOnlyInConstructor ==
    /\ (call.op = "construct" /\ call.missing # {})
           => (raised = "AttributeError" /\ built[call.self] = "failed")
    /\ (call.op # "construct" /\ raised # "none") => notified = <<>>

\* The first half of C14 alone: the constructor raises for every missing
\* component, and no mediator ends construction with a None field.
C14_ConstructorRaises ==
    /\ (call.op = "construct" /\ call.missing # {})
           => (raised = "AttributeError" /\ built[call.self] = "failed")
    /\ \A m \in Mediators : built[m] = "ready" => \A c \in Components : fields[m][c] = c

\* The mediators that hold component c in one of their fields.
HoldersOf(c) == {m \in Mediators : fields[m][c] = c}

\* C15 as stated: each component is held by at most one mediator, and the
\* mediator a component notifies is one that holds it.
C15_ExclusiveOwnership ==
    \A c \in Components :
        /\ Cardinality(HoldersOf(c)) <= 1
        /\ mediator[c] # NoMediator => mediator[c] \in HoldersOf(c)

(***************************************************************************)
(* C16: pickup on and off again while the recipient is checked.            *)
(***************************************************************************)

\* C16: when pickup is switched on in a state where the recipient checkbox
\* is checked and its inputs are shown (the state toggle(True) on the
\* recipient checkbox produces), and pickup is then switched off, the
\* recipient checkbox is active and still checked, the only notification is
\* pickup_toggled, and both recipient inputs are hidden.
C16_RecipientInputsStayHidden ==
    [][(/\ Called("toggle", "pickup_cb") /\ call.arg
        /\ pre.is_checked["recipient_cb"] = <<TRUE>>
        /\ pre.is_active["recipient_cb"]
        /\ \A f \in Inputs : pre.is_visible[f]
        /\ (Called("toggle", "pickup_cb") /\ ~call.arg)')
       => (/\ is_active["recipient_cb"]
           /\ is_checked["recipient_cb"] = <<TRUE>>
           /\ NotifiedOnce("pickup_cb", "pickup_toggled")
           /\ \A f \in Inputs : ~is_visible[f])']_vars

\* Pickup was switched off; the recipient is checked and active, its inputs
\* required and hidden.
C16_Witness ==
    /\ Called("toggle", "pickup_cb") /\ ~call.arg
    /\ CheckedBefore("pickup_cb")
    /\ is_checked["recipient_cb"] = <<TRUE>>
    /\ is_active["recipient_cb"]
    /\ \A f \in Inputs : is_required[f] /\ ~is_visible[f]

(***************************************************************************)
(* C17: when a recipient input is visible.                                 *)
(***************************************************************************)

\* C17: under the user actions, a recipient input is visible only if the
\* recipient checkbox is checked and the pickup checkbox is not; so both
\* inputs are hidden in every state in which pickup is checked.
C17_VisibleOnlyIfCheckedAndDelivery ==
    \A f \in Inputs : is_visible[f] => (Checked("recipient_cb") /\ ~Checked("pickup_cb"))

\* The inputs are shown again after pickup was switched on and off.
C17_Witness ==
    /\ \A f \in Inputs : is_visible[f]
    /\ is_checked["pickup_cb"] = <<FALSE>>
    /\ Checked("recipient_cb")

(***************************************************************************)
(* C18: what PickupToggle leaves alone.                                    *)
(***************************************************************************)

\* C18: PickupCheckbox.toggle(v) leaves is_required of both recipient inputs
\* and is_checked of the recipient checkbox as they were; is_visible is
\* False for both inputs when v is True and unchanged when v is False.
C18_PickupToggleFrame ==
    Called("toggle", "pickup_cb")
        => /\ is_required = pre.is_required
           /\ is_checked["recipient_cb"] = pre.is_checked["recipient_cb"]
           /\ call.arg => \A f \in Inputs : ~is_visible[f]
           /\ ~call.arg => is_visible = pre.is_visible

\* Pickup was switched on over required, visible inputs: required, now hidden.
C18_Witness ==
    /\ Called("toggle", "pickup_cb") /\ call.arg
    /\ \A f \in Inputs : pre.is_required[f] /\ pre.is_visible[f]
    /\ \A f \in Inputs : is_required[f] /\ ~is_visible[f]

(***************************************************************************)
(* C19: the proxy's cache.                                                 *)
(***************************************************************************)

\* C19: the real downloader is called at most once per filename, exactly
\* when the filename was requested; every download returns the data of the
\* real downloader for that filename; no cache entry is lost or changed.
C19_CacheDownloadsOnce ==
    /\ [](/\ \A f \in Files :
               /\ proxy.realCalls[f] = (IF proxy.requests[f] > 0 THEN 1 ELSE 0)
               /\ f \in DOMAIN proxy.cache <=> proxy.requests[f] > 0
          /\ proxy.filename # 0 => proxy.result = SimpleDownloader_download(proxy.filename))
    /\ [][\A f \in DOMAIN proxy.cache :
             f \in DOMAIN proxy'.cache /\ proxy'.cache[f] = proxy.cache[f]]_vars

\* A filename was requested a second time, after another one, and served
\* from the cache.
C19_Witness ==
    /\ proxy.filename # 0
    /\ proxy.requests[proxy.filename] >= 2
    /\ proxy.realCalls[proxy.filename] = 1
    /\ Cardinality(DOMAIN proxy.cache) >= 2
    /\ proxy.result = proxy.cache[proxy.filename]

(***************************************************************************)
(* C20: the template method.                                               *)
(***************************************************************************)

\* C20: update_entity runs get_entity, validate_data, hook_before_save,
\* save_data, send_response in this order; when validate_data returns False
\* it runs hook_on_validation_error, neither hook_before_save nor save_data,
\* and returns the error response with code 400; for every updater class.
C20_TemplateOrder ==
    updater.cls # "none"
        => IF validate_data(updater.cls, updater.new_data)
           THEN /\ updater.steps = <<"get_entity", "validate_data", "hook_before_save",
                                     "save_data", "send_response">>
                /\ updater.response.status = "success"
           ELSE /\ updater.steps = <<"get_entity", "validate_data", "hook_on_validation_error">>
                /\ updater.response =
                       [status |-> "error", code |-> 400,
                        message |-> <<"Validation failed">>, body |-> FALSE]

\* A product update with a negative price was rejected.
C20_Witness ==
    /\ updater.cls = "ProductUpdater"
    /\ updater.new_data.price = <<-1>>
    /\ updater.response.code = 400
    /\ updater.steps[Len(updater.steps)] = "hook_on_validation_error"


====
